---- MODULE Spec2Model ----
(***************************************************************************)
(* Weather Analyzer: the forecast-to-daily-summary aggregation              *)
(* (process_forecast_data), the growing-degree-day calculation              *)
(* (calculate_gdd) and the advisory rules of the dashboard script.          *)
(*                                                                         *)
(* Numbers are exact rationals <<n, d>> (d > 0, lowest terms): the code's   *)
(* float arithmetic is modelled without rounding error.  A date is the      *)
(* number of the local calendar day.  A pandas DataFrame is a record       *)
(* [columns, rows]: the set of column names and the sequence of rows, each  *)
(* row a function from the columns to values.                               *)
(***************************************************************************)
EXTENDS Integers, Sequences, FiniteSets, TLC

VARIABLES pc, forecast_data, raised,
          daily_summary_df, rainy_days_count, overall_avg_temp,
          overall_avg_humidity,
          gdd_base_temp, daily_summary_df_with_gdd, total_gdd_forecast,
          error_message, selected_month, frost_threshold_input,
          can_spray_days, caution_spray_days, shown

\* what process_forecast_data returns
processVars == <<daily_summary_df, rainy_days_count, overall_avg_temp,
                 overall_avg_humidity>>
\* what the GDD step sets
gddVars == <<gdd_base_temp, daily_summary_df_with_gdd, total_gdd_forecast>>

\* what the advisory section reads from the sidebar and writes to the page
advisoryVars == <<selected_month, frost_threshold_input, can_spray_days,
                  caution_spray_days>>

vars == <<pc, forecast_data, raised, processVars, gddVars, error_message,
          advisoryVars, shown>>

----------------------------------------------------------------------------
(* Bounds of the model *)

\* longest sample list of the freely combined payloads
MaxSamples == 3
\* most calendar days of the one-sample-per-day payloads
MaxDays == 8

----------------------------------------------------------------------------
(* Float arithmetic, as exact rationals *)

Abs(x) == IF x < 0 THEN -x ELSE x

RECURSIVE GCD(_, _)
GCD(a, b) == IF b = 0 THEN a ELSE GCD(b, a % b)

\* the number n/d, d > 0
Q(n, d) == LET g == GCD(Abs(n), d) IN <<n \div g, d \div g>>

Num(n) == <<n, 1>>
Zero == Num(0)

RAdd(a, b) == Q(a[1] * b[2] + b[1] * a[2], a[2] * b[2])
RSub(a, b) == Q(a[1] * b[2] - b[1] * a[2], a[2] * b[2])
RMulInt(a, k) == Q(a[1] * k, a[2])
RDivInt(a, k) == Q(a[1], a[2] * k)
RLt(a, b) == a[1] * b[2] < b[1] * a[2]
RLe(a, b) == a[1] * b[2] <= b[1] * a[2]
RMax(a, b) == IF RLt(a, b) THEN b ELSE a
RMin(a, b) == IF RLt(b, a) THEN b ELSE a

\* the reducers of DataFrame.agg over a non-empty column s
RECURSIVE ColSum(_)
ColSum(s) == IF s = <<>> THEN Zero ELSE RAdd(Head(s), ColSum(Tail(s)))

RECURSIVE ColMax(_)
ColMax(s) == IF Len(s) = 1 THEN s[1] ELSE RMax(Head(s), ColMax(Tail(s)))

RECURSIVE ColMin(_)
ColMin(s) == IF Len(s) = 1 THEN s[1] ELSE RMin(Head(s), ColMin(Tail(s)))

ColMean(s) == RDivInt(ColSum(s), Len(s))

----------------------------------------------------------------------------
(* The forecast payload *)

SecondsPerDay == 86400
\* datetime.fromtimestamp converts to local time; the model's zone is UTC+2
UtcOffset == 2 * 3600

\* datetime.fromtimestamp(dt).date()
DateOf(dt) == (dt + UtcOffset) \div SecondsPerDay

EmptyDict == [k \in {} |-> 0]

\* dict.get(k, default)
Get(d, k, default) == IF k \in DOMAIN d THEN d[k] ELSE default

Main(t, tmin, tmax, hum) ==
    [temp |-> Num(t), temp_min |-> Num(tmin), temp_max |-> Num(tmax),
     humidity |-> Num(hum)]

\* The weather of a sample, without its timestamp.  Cold has a `wind` object
\* without `gust`; Mild has a `rain` object without `3h` and no visibility;
\* Hot has no rain; Bare has the required fields only.
Cold == [main |-> Main(0, -1, 1, 90), rain |-> [3h |-> Num(2)],
         wind |-> [speed |-> Num(6)], pop |-> Q(4, 5),
         clouds |-> [all |-> Num(100)], visibility |-> Num(5000)]
Mild == [main |-> Main(12, 8, 20, 60), rain |-> EmptyDict,
         wind |-> [speed |-> Num(3), gust |-> Num(5)], pop |-> Q(3, 5),
         clouds |-> [all |-> Num(40)]]
Hot  == [main |-> Main(31, 22, 33, 30),
         wind |-> [speed |-> Num(1), gust |-> Num(6)], pop |-> Zero,
         clouds |-> [all |-> Zero], visibility |-> Num(10000)]
Bare == [main |-> Main(10, 2, 9, 76)]

Weathers == {Cold, Mild, Hot, Bare}

\* 02:00 and 23:00 local time of day 0, 00:00 local time of day 1
Timestamps == {0, 75600, 79200}

At(dt, w) == [dt |-> dt] @@ w

Samples == {At(dt, w) : dt \in Timestamps, w \in Weathers}

\* a dict in which key k is absent
Without(d, k) == [x \in DOMAIN d \ {k} |-> d[x]]

\* samples that lack one required field
Malformed ==
    LET good == At(0, Cold) IN
    {Without(good, "dt"), Without(good, "main")}
    \cup {[good EXCEPT !.main = Without(good.main, k)] :
            k \in {"temp", "temp_min", "temp_max", "humidity"}}

RECURSIVE SeqsUpTo(_, _)
SeqsUpTo(S, n) ==
    IF n = 0 THEN {<<>>}
    ELSE LET shorter == SeqsUpTo(S, n - 1) IN
         shorter \cup {Append(s, x) : s \in {t \in shorter : Len(t) = n - 1}, x \in S}

\* one sample per day, at noon local time; the days in `rainy` have rain
DaySample(day, rainy) ==
    At(day * SecondsPerDay + 36000,
       IF day \in rainy THEN [main |-> Main(12, 8, 20, 60), rain |-> [3h |-> Num(1)]]
       ELSE [main |-> Main(14, 9, 21, 50)])

\* the days 0..n-1 ascending, descending, or odd days first
DayOrders(n) ==
    LET asc == [i \in 1..n |-> i - 1]
        desc == [i \in 1..n |-> n - i]
        odd == SelectSeq(asc, LAMBDA d : d % 2 = 1)
        even == SelectSeq(asc, LAMBDA d : d % 2 = 0)
    IN {asc, desc, odd \o even}

WideLists ==
    {[i \in 1..Len(o) |-> DaySample(o[i], rainy)] :
        o \in UNION {DayOrders(n) : n \in 1..MaxDays},
        rainy \in SUBSET (0..(MaxDays - 1))}

Dict(list) == [isNone |-> FALSE, keys |-> {"cod", "list"}, list |-> list]

\* None, {}, and a dict without `list`
NoListPayloads ==
    {[isNone |-> TRUE, keys |-> {}, list |-> <<>>],
     [isNone |-> FALSE, keys |-> {}, list |-> <<>>],
     [isNone |-> FALSE, keys |-> {"cod"}, list |-> <<>>]}

MalformedLists ==
    {pre \o <<m>> \o post : pre \in SeqsUpTo({At(0, Mild)}, 1),
                            post \in SeqsUpTo({At(79200, Hot)}, 1),
                            m \in Malformed}

Payloads ==
    NoListPayloads
    \cup {Dict(l) : l \in SeqsUpTo(Samples, MaxSamples)}
    \cup {Dict(l) : l \in WideLists}
    \cup {Dict(l) : l \in MalformedLists}

----------------------------------------------------------------------------
(* process_forecast_data *)

SummaryColumns ==
    {"date", "avg_temp", "min_temp", "max_temp", "avg_humidity",
     "total_precipitation", "avg_wind_speed", "max_wind_speed",
     "max_wind_gust", "max_pop", "avg_cloud_cover", "avg_visibility"}

EmptyFrame(cols) == [columns |-> cols, rows |-> <<>>]

\* bool(forecast_data)
Truthy(fd) == ~fd.isNone /\ fd.keys # {}

\* the first required key the sample lacks, "" when it has them all
MissingKey(item) ==
    IF "dt" \notin DOMAIN item THEN "dt"
    ELSE IF "main" \notin DOMAIN item THEN "main"
    ELSE IF "temp" \notin DOMAIN item.main THEN "temp"
    ELSE IF "temp_min" \notin DOMAIN item.main THEN "temp_min"
    ELSE IF "temp_max" \notin DOMAIN item.main THEN "temp_max"
    ELSE IF "humidity" \notin DOMAIN item.main THEN "humidity"
    ELSE ""

\* the record appended to processed_data for one sample
ProcessedRow(item) ==
    [date |-> DateOf(item.dt),
     temp |-> item.main.temp,
     temp_min_3hr |-> item.main.temp_min,
     temp_max_3hr |-> item.main.temp_max,
     humidity |-> item.main.humidity,
     precipitation |-> Get(Get(item, "rain", EmptyDict), "3h", Zero),
     wind_speed |-> Get(Get(item, "wind", EmptyDict), "speed", Zero),
     wind_gust |-> Get(Get(item, "wind", EmptyDict), "gust", Zero),
     pop |-> RMulInt(Get(item, "pop", Zero), 100),
     cloud_cover |-> Get(Get(item, "clouds", EmptyDict), "all", Zero),
     visibility |-> Get(item, "visibility", Num(10000))]

\* mutant: the group keys in descending order
RECURSIVE SortedKeysDescending(_)
SortedKeysDescending(S) ==
    IF S = {} THEN <<>>
    ELSE LET m == CHOOSE x \in S : \A y \in S : x >= y
         IN <<m>> \o SortedKeysDescending(S \ {m})

\* the group keys of df.groupby('date'), which sorts them ascending
RECURSIVE SortedKeys(_)
SortedKeys(S) ==
    IF S = {} THEN <<>>
    ELSE LET m == CHOOSE x \in S : \A y \in S : x <= y
         IN <<m>> \o SortedKeys(S \ {m})

GroupKeys(processed) == SortedKeys({processed[i].date : i \in DOMAIN processed})

\* mutant: every sample contributes to every date
GroupOfAllRows(processed, d) == processed

\* the rows of one group, in input order
Group(processed, d) == SelectSeq(processed, LAMBDA r : r.date = d)

Column(rows, c) == [i \in DOMAIN rows |-> rows[i][c]]

\* the named aggregations of .agg(...) for one group
Aggregate(d, g) ==
    [date |-> d,
     avg_temp |-> ColMean(Column(g, "temp")),
     min_temp |-> ColMin(Column(g, "temp_min_3hr")),
     max_temp |-> ColMax(Column(g, "temp_max_3hr")),
     avg_humidity |-> ColMean(Column(g, "humidity")),
     total_precipitation |-> ColSum(Column(g, "precipitation")),
     avg_wind_speed |-> ColMean(Column(g, "wind_speed")),
     max_wind_speed |-> ColMax(Column(g, "wind_speed")),
     max_wind_gust |-> ColMax(Column(g, "wind_gust")),
     max_pop |-> ColMax(Column(g, "pop")),
     avg_cloud_cover |-> ColMean(Column(g, "cloud_cover")),
     avg_visibility |-> ColMean(Column(g, "visibility"))]

GroupByAgg(processed) ==
    LET keys == GroupKeys(processed)
    IN [i \in DOMAIN keys |-> Aggregate(keys[i], Group(processed, keys[i]))]

HeadLimit == 7

\* DataFrame.head(n)
HeadRows(rows, n) == SubSeq(rows, 1, IF Len(rows) < n THEN Len(rows) ELSE n)

\* mutant: days without precipitation count as rainy (>= for >)
RainyDaysNonNegative(rows) ==
    Cardinality({rows[i].date : i \in {j \in DOMAIN rows :
                                         RLe(Zero, rows[j].total_precipitation)}})

\* daily_summary[daily_summary['total_precipitation'] > 0]['date'].nunique()
RainyDays(rows) ==
    Cardinality({rows[i].date : i \in {j \in DOMAIN rows :
                                         RLt(Zero, rows[j].total_precipitation)}})

\* the early return for no data
NoDataResult ==
    [raised |-> "", daily_summary |-> EmptyFrame(SummaryColumns),
     rainy_days_count |-> 0, overall_avg_temp |-> Zero,
     overall_avg_humidity |-> Zero]

\* the KeyError of a subscript on a missing key; nothing is returned
KeyErrorResult(k) == [NoDataResult EXCEPT !.raised = "KeyError: " \o k]

\* the index of the first sample lacking a required key, 0 when there is none
FirstMalformed(list) ==
    IF \E i \in DOMAIN list : MissingKey(list[i]) # ""
    THEN CHOOSE i \in DOMAIN list :
            /\ MissingKey(list[i]) # ""
            /\ \A j \in 1..(i - 1) : MissingKey(list[j]) = ""
    ELSE 0

NoData(fd) == ~Truthy(fd) \/ "list" \notin fd.keys

\* mutant: the early return for an empty sample list is missing
NoSamplesNever(processed) == FALSE

\* `if not processed_data`
NoSamples(processed) == processed = <<>>

ProcessForecastData(fd) ==
    IF NoData(fd) THEN NoDataResult
    ELSE IF FirstMalformed(fd.list) # 0
    THEN KeyErrorResult(MissingKey(fd.list[FirstMalformed(fd.list)]))
    ELSE LET processed == [i \in DOMAIN fd.list |-> ProcessedRow(fd.list[i])]
             rows == HeadRows(GroupByAgg(processed), HeadLimit)
         IN IF NoSamples(processed) THEN NoDataResult
            \* pd.DataFrame([]) has no column 'date' to group by
            ELSE IF processed = <<>> THEN KeyErrorResult("date")
            ELSE
            [raised |-> "",
             daily_summary |-> [columns |-> SummaryColumns, rows |-> rows],
             rainy_days_count |-> RainyDays(rows),
             overall_avg_temp |->
                 IF rows # <<>> THEN ColMean(Column(rows, "avg_temp")) ELSE Zero,
             overall_avg_humidity |->
                 IF rows # <<>> THEN ColMean(Column(rows, "avg_humidity")) ELSE Zero]

NoFrame == EmptyFrame({})

----------------------------------------------------------------------------
(* calculate_gdd *)

\* mutant: the minimum temperature is not floored at the base temperature
DailyGddUnfloored(t_max, t_min, base_temp) ==
    IF RLt(t_max, base_temp) THEN Zero
    ELSE LET avg_daily_temp_for_gdd == RDivInt(RAdd(t_max, t_min), 2)
         IN IF RLt(avg_daily_temp_for_gdd, base_temp) THEN Zero
            ELSE RSub(avg_daily_temp_for_gdd, base_temp)

\* the body of the loop over the rows: one day's GDD
DailyGdd(t_max, t_min, base_temp) ==
    IF RLt(t_max, base_temp) THEN Zero
    ELSE LET eff_t_min == RMax(t_min, base_temp)
             avg_daily_temp_for_gdd == RDivInt(RAdd(t_max, eff_t_min), 2)
         IN IF RLt(avg_daily_temp_for_gdd, base_temp) THEN Zero
            ELSE RSub(avg_daily_temp_for_gdd, base_temp)

\* mutant: the running sum restarts at every row
CumSumRestarting(s) == s

\* Series.cumsum(): each element added to the running total before it
RECURSIVE CumSum(_)
CumSum(s) ==
    IF s = <<>> THEN <<>>
    ELSE LET front == CumSum(SubSeq(s, 1, Len(s) - 1))
         IN Append(front, IF front = <<>> THEN s[Len(s)]
                          ELSE RAdd(front[Len(front)], s[Len(s)]))

\* mutant: an empty frame is not returned early
IsEmptyNever(df) == FALSE

\* DataFrame.empty
IsEmpty(df) == df.rows = <<>>

\* daily_df[c] = series: the column is added, or replaced when present
WithColumn(df, c, series) ==
    [columns |-> df.columns \cup {c},
     rows |-> [i \in DOMAIN df.rows |->
                  [k \in df.columns \cup {c} |->
                      IF k = c THEN series[i] ELSE df.rows[i][k]]]]

CalculateGdd(daily_df, base_temp) ==
    IF IsEmpty(daily_df) \/ ~({"min_temp", "max_temp"} \subseteq daily_df.columns)
    THEN daily_df
    ELSE LET gdd_series ==
                 [i \in DOMAIN daily_df.rows |->
                     DailyGdd(daily_df.rows[i].max_temp,
                              daily_df.rows[i].min_temp, base_temp)]
         IN WithColumn(WithColumn(daily_df, "gdd", gdd_series),
                       "cumulative_gdd", CumSum(gdd_series))

GddUnset ==
    /\ gdd_base_temp = Zero
    /\ daily_summary_df_with_gdd = NoFrame
    /\ total_gdd_forecast = Zero

AdvisoryUnset ==
    /\ error_message = ""
    /\ selected_month = ""
    /\ frost_threshold_input = Zero
    /\ can_spray_days = <<>>
    /\ caution_spray_days = <<>>
    /\ shown = <<>>

----------------------------------------------------------------------------
(* A call of calculate_gdd on any frame *)

\* most rows of the frames calculate_gdd is called on
MaxRows == 3

\* the sidebar's base temperature: the crop defaults 5 and 10, and 8
BaseTemps == {Num(5), Num(8), Num(10)}

\* (min_temp, max_temp) of a day
DayTemps ==
    {<<Num(4), Num(4)>>, <<Num(4), Num(8)>>, <<Num(8), Num(8)>>,
     <<Num(8), Num(9)>>, <<Num(4), Num(20)>>, <<Num(8), Num(20)>>}

GddColumns == {"date", "avg_temp", "min_temp", "max_temp"}

\* a frame of consecutive days with the given temperatures and columns
TempFrame(temps, cols) ==
    [columns |-> cols,
     rows |-> [i \in DOMAIN temps |->
                  [c \in cols |->
                      CASE c = "date" -> i - 1
                        [] c = "min_temp" -> temps[i][1]
                        [] c = "max_temp" -> temps[i][2]
                        [] OTHER -> RDivInt(RAdd(temps[i][1], temps[i][2]), 2)]]]

GddFrames ==
    {TempFrame(temps, GddColumns \ drop) :
        temps \in SeqsUpTo(DayTemps, MaxRows),
        drop \in SUBSET {"min_temp", "max_temp"}}

InitGdd ==
    /\ pc = "call_gdd"
    /\ forecast_data = [isNone |-> TRUE, keys |-> {}, list |-> <<>>]
    /\ raised = ""
    /\ daily_summary_df \in GddFrames
    /\ rainy_days_count = 0
    /\ overall_avg_temp = Zero
    /\ overall_avg_humidity = Zero
    /\ gdd_base_temp \in BaseTemps
    /\ daily_summary_df_with_gdd = NoFrame
    /\ total_gdd_forecast = Zero
    /\ AdvisoryUnset

\* calculate_gdd(daily_summary_df.copy(), gdd_base_temp)
GddReturns ==
    /\ pc = "call_gdd"
    /\ pc' = "gdd_returned"
    /\ daily_summary_df_with_gdd' = CalculateGdd(daily_summary_df, gdd_base_temp)
    /\ UNCHANGED <<forecast_data, raised, processVars, gdd_base_temp,
                   total_gdd_forecast, error_message, advisoryVars, shown>>

NextGdd == GddReturns

SpecGdd == InitGdd /\ [][NextGdd]_vars

----------------------------------------------------------------------------
(* A call of process_forecast_data on any payload *)

InitProcess ==
    /\ pc = "call_process"
    /\ forecast_data \in Payloads
    /\ raised = ""
    /\ daily_summary_df = NoFrame
    /\ rainy_days_count = 0
    /\ overall_avg_temp = Zero
    /\ overall_avg_humidity = Zero
    /\ GddUnset
    /\ AdvisoryUnset

\* the call returns
ProcessReturns ==
    /\ pc = "call_process"
    /\ LET r == ProcessForecastData(forecast_data) IN
        /\ r.raised = ""
        /\ pc' = "returned"
        /\ daily_summary_df' = r.daily_summary
        /\ rainy_days_count' = r.rainy_days_count
        /\ overall_avg_temp' = r.overall_avg_temp
        /\ overall_avg_humidity' = r.overall_avg_humidity
    /\ UNCHANGED <<forecast_data, raised, gddVars, error_message,
                   advisoryVars, shown>>

\* the call raises
ProcessRaises ==
    /\ pc = "call_process"
    /\ LET r == ProcessForecastData(forecast_data) IN
        /\ r.raised # ""
        /\ pc' = "raised"
        /\ raised' = r.raised
    /\ UNCHANGED <<forecast_data, processVars, gddVars, error_message,
                   advisoryVars, shown>>

NextProcess == ProcessReturns \/ ProcessRaises

SpecProcess == InitProcess /\ [][NextProcess]_vars

----------------------------------------------------------------------------
(* The advisory section of the dashboard script *)

NORMALS ==
    [January   |-> [temp |-> Q(3, 2),  rain_days |-> 5, frost_days |-> 20],
     February  |-> [temp |-> Q(7, 2),  rain_days |-> 4, frost_days |-> 15],
     March     |-> [temp |-> Q(15, 2), rain_days |-> 5, frost_days |-> 10],
     April     |-> [temp |-> Q(25, 2), rain_days |-> 6, frost_days |-> 2],
     May       |-> [temp |-> Q(35, 2), rain_days |-> 8, frost_days |-> 0],
     June      |-> [temp |-> Q(43, 2), rain_days |-> 7, frost_days |-> 0],
     July      |-> [temp |-> Num(24),  rain_days |-> 5, frost_days |-> 0],
     August    |-> [temp |-> Q(47, 2), rain_days |-> 4, frost_days |-> 0],
     September |-> [temp |-> Num(19),  rain_days |-> 4, frost_days |-> 1],
     October   |-> [temp |-> Num(13),  rain_days |-> 5, frost_days |-> 5],
     November  |-> [temp |-> Q(15, 2), rain_days |-> 6, frost_days |-> 12],
     December  |-> [temp |-> Q(5, 2),  rain_days |-> 6, frost_days |-> 18]]

\* one st.success / st.info / st.warning / st.error of the page: what it
\* says and the dates it names
Finding(tag, days) == [tag |-> tag, days |-> days]

Dates(rows) == [i \in DOMAIN rows |-> rows[i].date]

Tags(findings) == {findings[i].tag : i \in DOMAIN findings}

\* mutant: a day at the threshold counts as a frost day (<= for <)
FrostFindingsInclusive(df, frost_threshold) ==
    LET frost_days_forecast ==
            SelectSeq(df.rows, LAMBDA r : RLe(r.min_temp, frost_threshold))
    IN IF frost_days_forecast # <<>>
       THEN <<Finding("frost_warning", Dates(frost_days_forecast))>>
       ELSE <<Finding("no_frost", <<>>)>>

\* Frost Warnings
FrostFindings(df, frost_threshold) ==
    LET frost_days_forecast ==
            SelectSeq(df.rows, LAMBDA r : RLt(r.min_temp, frost_threshold))
    IN IF frost_days_forecast # <<>>
       THEN <<Finding("frost_warning", Dates(frost_days_forecast))>>
       ELSE <<Finding("no_frost", <<>>)>>

heat_stress_threshold == 30

\* Heat Stress Advisory
HeatFindings(df) ==
    IF "max_temp" \in df.columns
    THEN LET heat_stress_days ==
                 SelectSeq(df.rows,
                           LAMBDA r : RLt(Num(heat_stress_threshold), r.max_temp))
         IN IF heat_stress_days # <<>>
            THEN <<Finding("heat_stress", Dates(heat_stress_days))>>
            ELSE <<>>
    ELSE <<>>

ideal_wind_lower == Q(3, 2)
ideal_wind_upper == Q(9, 2)
gust_limit == Num(6)

\* mutant: a gust equal to the limit still counts as favorable
SprayClassGustInclusive(avg_ws, max_g) ==
    IF RLe(ideal_wind_lower, avg_ws) /\ RLe(avg_ws, ideal_wind_upper)
       /\ RLe(max_g, gust_limit)
    THEN "favorable"
    ELSE IF RLt(avg_ws, ideal_wind_lower) THEN "low_wind"
    ELSE "high_wind"

\* the if / elif / else of the loop over the days
SprayClass(avg_ws, max_g) ==
    IF RLe(ideal_wind_lower, avg_ws) /\ RLe(avg_ws, ideal_wind_upper)
       /\ RLt(max_g, gust_limit)
    THEN "favorable"
    ELSE IF RLt(avg_ws, ideal_wind_lower) THEN "low_wind"
    ELSE "high_wind"

RowSprayClass(r) == SprayClass(r.avg_wind_speed, r.max_wind_gust)

HasWindColumns(df) ==
    "avg_wind_speed" \in df.columns /\ "max_wind_gust" \in df.columns

CanSprayDays(df) ==
    IF HasWindColumns(df)
    THEN Dates(SelectSeq(df.rows, LAMBDA r : RowSprayClass(r) = "favorable"))
    ELSE <<>>

CautionSprayDays(df) ==
    IF HasWindColumns(df)
    THEN LET rest == SelectSeq(df.rows, LAMBDA r : RowSprayClass(r) # "favorable")
         IN [i \in DOMAIN rest |->
                [date |-> rest[i].date, caution |-> RowSprayClass(rest[i])]]
    ELSE <<>>

\* Spraying Advisory
SprayFindings(df) ==
    IF HasWindColumns(df)
    THEN <<Finding("spray_header", <<>>)>>
         \o (IF CanSprayDays(df) # <<>>
             THEN <<Finding("spray_favorable", CanSprayDays(df))>> ELSE <<>>)
         \o (IF CautionSprayDays(df) # <<>>
             THEN <<Finding("spray_caution", Dates(CautionSprayDays(df)))>>
             ELSE <<>>)
         \o <<Finding("spray_caption", <<>>)>>
    ELSE <<>>

\* Precipitation Chance
PopFindings(df) ==
    IF "max_pop" \in df.columns
    THEN LET high_pop_days ==
                 SelectSeq(df.rows, LAMBDA r : RLt(Num(60), r.max_pop))
         IN IF high_pop_days # <<>>
            THEN <<Finding("high_pop", Dates(high_pop_days))>>
            ELSE <<>>
    ELSE <<>>

\* overall_avg_temp against norm_temp +/- 2
TempClass(avg_temp, norm_temp) ==
    IF RLt(RAdd(norm_temp, Num(2)), avg_temp) THEN "warmer"
    ELSE IF RLt(avg_temp, RSub(norm_temp, Num(2))) THEN "cooler"
    ELSE "temp_typical"

\* mutant: >= for > in the wetter branch
RainClassInclusive(rainy_days, norm_rain_days) ==
    LET weekly == RDivInt(Num(norm_rain_days), 4)
    IN IF RLe(RAdd(weekly, Num(1)), Num(rainy_days)) THEN "wetter"
       ELSE IF /\ RLt(Num(rainy_days), RSub(weekly, Num(1)))
               /\ RLt(Zero, RSub(weekly, Num(1)))
       THEN "drier"
       ELSE "rain_typical"

\* rainy_days_count against norm_rain_days / 4 +/- 1
RainClass(rainy_days, norm_rain_days) ==
    LET weekly == RDivInt(Num(norm_rain_days), 4)
    IN IF RLt(RAdd(weekly, Num(1)), Num(rainy_days)) THEN "wetter"
       ELSE IF /\ RLt(Num(rainy_days), RSub(weekly, Num(1)))
               /\ RLt(Zero, RSub(weekly, Num(1)))
       THEN "drier"
       ELSE "rain_typical"

\* Climate Normals Comparison
NormalsFindings(month, rainy_days, avg_temp, avg_humidity) ==
    IF month \in DOMAIN NORMALS
    THEN <<Finding("normals", <<>>),
           Finding(TempClass(avg_temp, NORMALS[month].temp), <<>>),
           Finding(RainClass(rainy_days, NORMALS[month].rain_days), <<>>)>>
         \o (IF RLt(Num(75), avg_humidity)
             THEN <<Finding("high_humidity", <<>>)>> ELSE <<>>)
    ELSE <<Finding("normals_missing", <<>>)>>

\* the frost rule subscripts 'min_temp' without a column check
AdvisoryKeyError(df) ==
    IF "min_temp" \notin df.columns THEN "KeyError: min_temp" ELSE ""

\* the findings of the advisory section, in the order the script shows them
AdvisoryFindings(df, frost_threshold, month, rainy_days, avg_temp, avg_humidity) ==
    FrostFindings(df, frost_threshold) \o HeatFindings(df) \o SprayFindings(df)
    \o PopFindings(df)
    \o NormalsFindings(month, rainy_days, avg_temp, avg_humidity)

----------------------------------------------------------------------------
(* The GDD step of the script *)

RequiredColumns ==
    {"min_temp", "max_temp", "avg_humidity", "total_precipitation",
     "avg_wind_speed", "max_wind_gust", "max_pop", "avg_cloud_cover"}

\* the frame lacks rows or one of the fields the dashboard needs
Incomplete(df) == IsEmpty(df) \/ ~(RequiredColumns \subseteq df.columns)

WithGdd(df, base_temp) ==
    IF Incomplete(df)
    THEN IF "min_temp" \in df.columns /\ "max_temp" \in df.columns
         THEN CalculateGdd(df, base_temp)
         ELSE df
    ELSE CalculateGdd(df, base_temp)

\* daily_summary_df_with_gdd['cumulative_gdd'].iloc[-1], or 0
TotalGdd(df) ==
    IF "cumulative_gdd" \in df.columns /\ ~IsEmpty(df)
    THEN df.rows[Len(df.rows)].cumulative_gdd
    ELSE Zero

----------------------------------------------------------------------------
(* The script after the Analyze button, from the fetched forecast on *)

\* longest sample list of the freely combined payloads of the script
AppMaxSamples == 2

AppSamples == {At(dt, w) : dt \in {0, 79200}, w \in Weathers}

\* one sample per day, the first k days rainy or only the last day rainy
AppWeekLists ==
    {[i \in 1..Len(o) |-> DaySample(o[i], rainy)] :
        o \in UNION {DayOrders(n) : n \in 1..MaxDays},
        rainy \in {0..(k - 1) : k \in 0..MaxDays} \cup {{MaxDays - 1}}}

AppPayloads ==
    NoListPayloads
    \cup {Dict(l) : l \in SeqsUpTo(AppSamples, AppMaxSamples)}
    \cup {Dict(l) : l \in AppWeekLists}
    \cup {Dict(l) : l \in MalformedLists}

AppBaseTemps == {Num(5), Num(10)}

FrostThresholds == {Num(2), Num(-1)}

InitApp ==
    /\ pc = "fetched"
    /\ \/ /\ error_message = ""
          /\ forecast_data \in AppPayloads
       \/ /\ error_message = "Error fetching data"
          /\ forecast_data = [isNone |-> TRUE, keys |-> {}, list |-> <<>>]
    /\ raised = ""
    /\ daily_summary_df = NoFrame
    /\ rainy_days_count = 0
    /\ overall_avg_temp = Zero
    /\ overall_avg_humidity = Zero
    /\ GddUnset
    /\ selected_month = ""
    /\ frost_threshold_input = Zero
    /\ can_spray_days = <<>>
    /\ caution_spray_days = <<>>
    /\ shown = <<>>

\* if error_message: st.error(error_message)
ShowFetchError ==
    /\ pc = "fetched"
    /\ error_message # ""
    /\ pc' = "done"
    /\ shown' = Append(shown, Finding("fetch_error", <<>>))
    /\ UNCHANGED <<forecast_data, raised, processVars, gddVars, error_message,
                   advisoryVars>>

\* else: no forecast to analyze
NoForecast ==
    /\ pc = "fetched"
    /\ error_message = ""
    /\ ~Truthy(forecast_data)
    /\ pc' = "done"
    /\ shown' = Append(shown, Finding("click_analyze", <<>>))
    /\ UNCHANGED <<forecast_data, raised, processVars, gddVars, error_message,
                   advisoryVars>>

\* elif forecast_data: process_forecast_data(forecast_data) returns
Process ==
    /\ pc = "fetched"
    /\ error_message = ""
    /\ Truthy(forecast_data)
    /\ LET r == ProcessForecastData(forecast_data) IN
        /\ r.raised = ""
        /\ pc' = "processed"
        /\ daily_summary_df' = r.daily_summary
        /\ rainy_days_count' = r.rainy_days_count
        /\ overall_avg_temp' = r.overall_avg_temp
        /\ overall_avg_humidity' = r.overall_avg_humidity
    /\ shown' = Append(shown, Finding("fetched", <<>>))
    /\ UNCHANGED <<forecast_data, raised, gddVars, error_message, advisoryVars>>

\* process_forecast_data raises; the script does not catch it
ProcessFails ==
    /\ pc = "fetched"
    /\ error_message = ""
    /\ Truthy(forecast_data)
    /\ LET r == ProcessForecastData(forecast_data) IN
        /\ r.raised # ""
        /\ pc' = "raised"
        /\ raised' = r.raised
    /\ shown' = Append(shown, Finding("fetched", <<>>))
    /\ UNCHANGED <<forecast_data, processVars, gddVars, error_message,
                   advisoryVars>>

\* daily_summary_df_with_gdd and total_gdd_forecast, with the base
\* temperature of the sidebar
GddStep ==
    /\ pc = "processed"
    /\ pc' = "gdd_done"
    /\ \E base \in AppBaseTemps :
        /\ gdd_base_temp' = base
        /\ daily_summary_df_with_gdd' = WithGdd(daily_summary_df, base)
        /\ total_gdd_forecast' = TotalGdd(WithGdd(daily_summary_df, base))
    /\ shown' = IF Incomplete(daily_summary_df)
                THEN Append(shown, Finding("fields_missing", <<>>))
                ELSE shown
    /\ UNCHANGED <<forecast_data, raised, processVars, error_message,
                   advisoryVars>>

\* the advisory section, with the frost threshold and the month of the
\* sidebar
Advise ==
    /\ pc = "gdd_done"
    /\ AdvisoryKeyError(daily_summary_df_with_gdd) = ""
    /\ pc' = "done"
    /\ \E threshold \in FrostThresholds, month \in DOMAIN NORMALS :
        /\ frost_threshold_input' = threshold
        /\ selected_month' = month
        /\ shown' = shown \o AdvisoryFindings(daily_summary_df_with_gdd,
                                threshold, month, rainy_days_count,
                                overall_avg_temp, overall_avg_humidity)
    /\ can_spray_days' = CanSprayDays(daily_summary_df_with_gdd)
    /\ caution_spray_days' = CautionSprayDays(daily_summary_df_with_gdd)
    /\ UNCHANGED <<forecast_data, raised, processVars, gddVars, error_message>>

Next == ShowFetchError \/ NoForecast \/ Process \/ ProcessFails \/ GddStep \/ Advise

Spec == InitApp /\ [][Next]_vars

----------------------------------------------------------------------------
(* The advisory section evaluated on any summary, month and threshold *)

\* most rows of the summaries the advisory section is evaluated on
MaxAdvisoryRows == 2

\* the summary row of a day with one sample of weather w
DayRow(day, w) ==
    Aggregate(day, <<ProcessedRow(At(day * SecondsPerDay + 36000, w))>>)

\* the fields the advisory rules read, alone and together
DroppedColumns ==
    {{}, {"min_temp"}, {"max_temp"}, {"avg_wind_speed"}, {"max_wind_gust"},
     {"avg_wind_speed", "max_wind_gust"}, {"max_pop"},
     {"min_temp", "max_temp", "avg_wind_speed", "max_wind_gust", "max_pop"}}

\* the frame without the columns in `drop`
DropColumns(df, drop) ==
    [columns |-> df.columns \ drop,
     rows |-> [i \in DOMAIN df.rows |->
                  [c \in df.columns \ drop |-> df.rows[i][c]]]]

AdvisoryFrames ==
    {DropColumns([columns |-> SummaryColumns,
                  rows |-> [i \in DOMAIN ws |-> DayRow(i - 1, ws[i])]], drop) :
        ws \in SeqsUpTo(Weathers, MaxAdvisoryRows), drop \in DroppedColumns}

\* two months of the table and a month that is not a key of it
AdvisoryMonths == {"February", "May", "Undecimber"}

InitAdvisory ==
    /\ pc = "call_advisory"
    /\ forecast_data = [isNone |-> TRUE, keys |-> {}, list |-> <<>>]
    /\ raised = ""
    /\ daily_summary_df = NoFrame
    /\ rainy_days_count \in {0, 3}
    /\ overall_avg_temp = Num(10)
    /\ overall_avg_humidity \in {Num(75), Num(76)}
    /\ gdd_base_temp = Zero
    /\ daily_summary_df_with_gdd \in AdvisoryFrames
    /\ total_gdd_forecast = Zero
    /\ error_message = ""
    /\ selected_month \in AdvisoryMonths
    /\ frost_threshold_input \in FrostThresholds
    /\ can_spray_days = <<>>
    /\ caution_spray_days = <<>>
    /\ shown = <<>>

\* the section runs to its end
AdvisoryReturns ==
    /\ pc = "call_advisory"
    /\ AdvisoryKeyError(daily_summary_df_with_gdd) = ""
    /\ pc' = "done"
    /\ shown' = shown \o AdvisoryFindings(daily_summary_df_with_gdd,
                            frost_threshold_input, selected_month,
                            rainy_days_count, overall_avg_temp,
                            overall_avg_humidity)
    /\ can_spray_days' = CanSprayDays(daily_summary_df_with_gdd)
    /\ caution_spray_days' = CautionSprayDays(daily_summary_df_with_gdd)
    /\ UNCHANGED <<forecast_data, raised, processVars, gddVars, error_message,
                   selected_month, frost_threshold_input>>

\* the frost rule's subscript raises before any rule has shown a finding
AdvisoryRaises ==
    /\ pc = "call_advisory"
    /\ AdvisoryKeyError(daily_summary_df_with_gdd) # ""
    /\ pc' = "raised"
    /\ raised' = AdvisoryKeyError(daily_summary_df_with_gdd)
    /\ UNCHANGED <<forecast_data, processVars, gddVars, error_message,
                   advisoryVars, shown>>

NextAdvisory == AdvisoryReturns \/ AdvisoryRaises

SpecAdvisory == InitAdvisory /\ [][NextAdvisory]_vars

----------------------------------------------------------------------------
(* Claims about process_forecast_data *)

\* the payload carries a list of well-formed samples, and at least one
HasSamples ==
    /\ ~NoData(forecast_data)
    /\ forecast_data.list # <<>>
    /\ \A i \in DOMAIN forecast_data.list : MissingKey(forecast_data.list[i]) = ""

InputDates ==
    {DateOf(forecast_data.list[i].dt) : i \in DOMAIN forecast_data.list}

\* the samples of calendar date d, by their index in the payload
SamplesOf(d) ==
    {i \in DOMAIN forecast_data.list : DateOf(forecast_data.list[i].dt) = d}

\* field c of sample i as the aggregation reads it
Reading(i, c) == ProcessedRow(forecast_data.list[i])[c]

RECURSIVE SumOfReadings(_, _)
SumOfReadings(I, c) ==
    IF I = {} THEN Zero
    ELSE LET i == CHOOSE x \in I : TRUE
         IN RAdd(Reading(i, c), SumOfReadings(I \ {i}, c))

IsSumOf(v, I, c) == v = SumOfReadings(I, c)
IsMeanOf(v, I, c) == RMulInt(v, Cardinality(I)) = SumOfReadings(I, c)
IsMinOf(v, I, c) ==
    /\ \E i \in I : v = Reading(i, c)
    /\ \A i \in I : RLe(v, Reading(i, c))
IsMaxOf(v, I, c) ==
    /\ \E i \in I : v = Reading(i, c)
    /\ \A i \in I : RLe(Reading(i, c), v)

Smaller(a, b) == IF a < b THEN a ELSE b

\* C1: for a non-empty sample sequence with D distinct calendar dates the
\* summary has exactly min(7, D) rows, one for each of the min(7, D) earliest
\* dates, every row's date is a date of some sample, and the rows are in
\* strictly ascending date order whatever the order of the samples.
C1_RowsAreEarliestDates ==
    (pc = "returned" /\ HasSamples) =>
        LET rows == daily_summary_df.rows IN
        /\ Len(rows) = Smaller(7, Cardinality(InputDates))
        /\ \A i, j \in DOMAIN rows : i < j => rows[i].date < rows[j].date
        /\ \A i \in DOMAIN rows : rows[i].date \in InputDates
        /\ \A d \in InputDates :
              (\A i \in DOMAIN rows : rows[i].date # d) =>
                  \A i \in DOMAIN rows : rows[i].date < d

\* more than seven dates, given latest first, were cut to the seven earliest
C1_Witness ==
    /\ pc = "returned" /\ HasSamples
    /\ Cardinality(InputDates) > 7
    /\ forecast_data.list[1].dt > forecast_data.list[2].dt
    /\ Len(daily_summary_df.rows) = 7

\* C2: every row's values are the reduction of exactly the samples of the
\* row's date: sum of precipitation, minimum of the slice minima, maximum of
\* the slice maxima, maxima of wind speed, gust and pop, and arithmetic
\* means (sum over the number of samples of that date) of temperature,
\* humidity, wind speed, cloud cover and visibility.
C2_RowsReduceTheirDate ==
    (pc = "returned" /\ HasSamples) =>
        \A k \in DOMAIN daily_summary_df.rows :
            LET row == daily_summary_df.rows[k]
                I == SamplesOf(row.date)
            IN /\ I # {}
               /\ IsSumOf(row.total_precipitation, I, "precipitation")
               /\ IsMinOf(row.min_temp, I, "temp_min_3hr")
               /\ IsMaxOf(row.max_temp, I, "temp_max_3hr")
               /\ IsMaxOf(row.max_wind_speed, I, "wind_speed")
               /\ IsMaxOf(row.max_wind_gust, I, "wind_gust")
               /\ IsMaxOf(row.max_pop, I, "pop")
               /\ IsMeanOf(row.avg_temp, I, "temp")
               /\ IsMeanOf(row.avg_humidity, I, "humidity")
               /\ IsMeanOf(row.avg_wind_speed, I, "wind_speed")
               /\ IsMeanOf(row.avg_cloud_cover, I, "cloud_cover")
               /\ IsMeanOf(row.avg_visibility, I, "visibility")

\* a day of two different samples next to a sample of another day
C2_Witness ==
    /\ pc = "returned" /\ HasSamples
    /\ Len(daily_summary_df.rows) = 2
    /\ Cardinality(SamplesOf(daily_summary_df.rows[1].date)) = 2
    /\ daily_summary_df.rows[1].min_temp # daily_summary_df.rows[1].max_temp
    /\ daily_summary_df.rows[1].avg_temp = Num(6)
    /\ daily_summary_df.rows[1].total_precipitation = Num(2)

\* C5: rainy_days_count is the number of rows of the truncated summary whose
\* total_precipitation is strictly positive: 0 when every retained day is
\* dry, never more than the number of rows.
C5_RainyDaysCountsWetRows ==
    pc = "returned" =>
        LET rows == daily_summary_df.rows
            wet == {k \in DOMAIN rows : RLt(Zero, rows[k].total_precipitation)}
        IN /\ rainy_days_count = Cardinality(wet)
           /\ rainy_days_count <= Len(rows)
           /\ (wet = {}) => rainy_days_count = 0
           /\ HasSamples =>
                 rainy_days_count = Cardinality(
                     {d \in InputDates :
                         /\ Cardinality({e \in InputDates : e < d}) < 7
                         /\ RLt(Zero, SumOfReadings(SamplesOf(d), "precipitation"))})

\* rain on the eighth date only: the retained week is dry and counts 0
C5_Witness ==
    /\ pc = "returned" /\ HasSamples
    /\ Cardinality(InputDates) = 8
    /\ Len(daily_summary_df.rows) = 7
    /\ \E i \in DOMAIN forecast_data.list :
          RLt(Zero, Reading(i, "precipitation"))
    /\ rainy_days_count = 0

\* the payload is empty, has no `list`, or has a `list` without samples
EmptyPayload ==
    \/ forecast_data.isNone
    \/ forecast_data.keys = {}
    \/ "list" \notin forecast_data.keys
    \/ forecast_data.list = <<>>

\* C6: on an empty payload, a payload without `list` or with an empty `list`
\* the call does not fail and returns an empty summary, rainy-day count 0 and
\* overall averages 0.0.
C6_EmptyPayloadNeutralResult ==
    EmptyPayload =>
        /\ pc # "raised"
        /\ pc = "returned" =>
              /\ daily_summary_df.rows = <<>>
              /\ rainy_days_count = 0
              /\ overall_avg_temp = Zero
              /\ overall_avg_humidity = Zero

\* the call returned for a payload whose `list` is present and empty
C6_Witness ==
    /\ pc = "returned"
    /\ "list" \in forecast_data.keys
    /\ forecast_data.list = <<>>
    /\ daily_summary_df = EmptyFrame(SummaryColumns)

\* C7: aggregation never throws for data-shape problems: a payload whose
\* list holds a sample lacking a required field still gets a result.
C7_MalformedSampleNeverRaises ==
    (/\ ~NoData(forecast_data)
     /\ \E i \in DOMAIN forecast_data.list : MissingKey(forecast_data.list[i]) # "")
        => pc # "raised"

----------------------------------------------------------------------------
(* Claims about calculate_gdd *)

GddAdded ==
    /\ daily_summary_df.rows # <<>>
    /\ {"min_temp", "max_temp"} \subseteq daily_summary_df.columns

\* C3: the gdd written for a day is 0 when max_temp < base, and otherwise
\* max((max_temp + max(min_temp, base)) / 2 - base, 0); so gdd >= 0 always
\* and gdd = 0 whenever max_temp < base, whatever min_temp is.
C3_GddFormula ==
    (pc = "gdd_returned" /\ GddAdded) =>
        \A i \in DOMAIN daily_summary_df_with_gdd.rows :
            LET t_max == daily_summary_df.rows[i].max_temp
                t_min == daily_summary_df.rows[i].min_temp
                base == gdd_base_temp
                gdd == daily_summary_df_with_gdd.rows[i].gdd
                floored == IF RLt(t_min, base) THEN base ELSE t_min
                excess == RSub(RDivInt(RAdd(t_max, floored), 2), base)
            IN /\ RLt(t_max, base) => gdd = Zero
               /\ ~RLt(t_max, base) =>
                     gdd = (IF RLt(excess, Zero) THEN Zero ELSE excess)
               /\ RLe(Zero, gdd)

\* a day with min_temp below the base and max_temp above it, and a day
\* entirely below the base
C3_Witness ==
    /\ pc = "gdd_returned" /\ GddAdded
    /\ gdd_base_temp = Num(10)
    /\ \E i \in DOMAIN daily_summary_df_with_gdd.rows :
          /\ daily_summary_df.rows[i].min_temp = Num(8)
          /\ daily_summary_df.rows[i].max_temp = Num(20)
          /\ daily_summary_df_with_gdd.rows[i].gdd = Num(5)
    /\ \E i \in DOMAIN daily_summary_df_with_gdd.rows :
          /\ daily_summary_df.rows[i].max_temp = Num(9)
          /\ daily_summary_df_with_gdd.rows[i].gdd = Zero

\* C8: calculate_gdd changes nothing but the two derived fields: the number
\* of rows, their order and every field the input had are the same after the
\* call; an input that is empty or lacks min_temp or max_temp is returned
\* unchanged, without gdd and cumulative_gdd; otherwise exactly gdd and
\* cumulative_gdd are added to every row.
C8_GddFrame ==
    pc = "gdd_returned" =>
        LET in == daily_summary_df
            out == daily_summary_df_with_gdd
        IN /\ Len(out.rows) = Len(in.rows)
           /\ \A i \in DOMAIN in.rows : \A c \in in.columns :
                 out.rows[i][c] = in.rows[i][c]
           /\ ~GddAdded =>
                 /\ out = in
                 /\ out.columns \cap {"gdd", "cumulative_gdd"} = {}
           /\ GddAdded =>
                 /\ out.columns = in.columns \cup {"gdd", "cumulative_gdd"}
                 /\ \A i \in DOMAIN out.rows : DOMAIN out.rows[i] = out.columns

\* the call returned a frame without max_temp as it was, an empty frame as
\* it was, or a frame of several days with the two fields added
C8_WitnessLacking ==
    /\ pc = "gdd_returned"
    /\ Len(daily_summary_df.rows) = 2
    /\ "max_temp" \notin daily_summary_df.columns
    /\ "min_temp" \in daily_summary_df.columns
    /\ daily_summary_df_with_gdd = daily_summary_df

----------------------------------------------------------------------------
(* Claims about the script: cumulative GDD and the advisory rules *)

RECURSIVE SumOfGdd(_, _)
SumOfGdd(rows, I) ==
    IF I = {} THEN Zero
    ELSE LET i == CHOOSE x \in I : TRUE
         IN RAdd(rows[i].gdd, SumOfGdd(rows, I \ {i}))

\* the GDD step has run on a summary with rows
GddComputed ==
    /\ pc \in {"gdd_done", "done"}
    /\ "cumulative_gdd" \in daily_summary_df_with_gdd.columns

\* C4: the cumulative_gdd of row i is the sum of gdd over rows 1..i in row
\* (chronological) order, with no reset; so cumulative_gdd is non-decreasing
\* along the rows and the last row's value, which the script reports as the
\* total, is the sum of all daily gdd.
C4_CumulativeIsRunningSum ==
    GddComputed =>
        LET rows == daily_summary_df_with_gdd.rows IN
        /\ rows # <<>>
        /\ \A i \in DOMAIN rows :
              rows[i].cumulative_gdd = SumOfGdd(rows, 1..i)
        /\ \A i, j \in DOMAIN rows :
              i < j => /\ rows[i].date < rows[j].date
                       /\ RLe(rows[i].cumulative_gdd, rows[j].cumulative_gdd)
        /\ total_gdd_forecast = SumOfGdd(rows, DOMAIN rows)

\* two days of different positive gdd: 5 and 17.5 above base 10
C4_Witness ==
    /\ GddComputed
    /\ gdd_base_temp = Num(10)
    /\ Len(daily_summary_df_with_gdd.rows) = 2
    /\ daily_summary_df_with_gdd.rows[1].gdd = Num(5)
    /\ daily_summary_df_with_gdd.rows[2].gdd = Q(35, 2)
    /\ total_gdd_forecast = Q(45, 2)

\* the advisory section has run
Advised == pc = "done" /\ selected_month # ""

NumberTagged(findings, tags) ==
    Cardinality({i \in DOMAIN findings : findings[i].tag \in tags})

\* C9: every day is in exactly one of the two spraying groups; it is in the
\* favorable group iff 1.5 <= avg_wind_speed <= 4.5 and max_wind_gust < 6.0;
\* another day is labelled low-wind iff avg_wind_speed < 1.5, whatever its
\* gust, and high-wind otherwise; the favorable finding is shown iff the
\* favorable group is non-empty and the caution finding iff the caution
\* group is non-empty.
C9_SprayingWindows ==
    Advised =>
        LET rows == daily_summary_df_with_gdd.rows
            InBand(r) == /\ RLe(Q(3, 2), r.avg_wind_speed)
                         /\ RLe(r.avg_wind_speed, Q(9, 2))
                         /\ RLt(r.max_wind_gust, Num(6))
            can == {can_spray_days[i] : i \in DOMAIN can_spray_days}
            caution == {caution_spray_days[i].date : i \in DOMAIN caution_spray_days}
        IN /\ Len(can_spray_days) + Len(caution_spray_days) = Len(rows)
           /\ can \cap caution = {}
           /\ \A k \in DOMAIN rows :
                 /\ rows[k].date \in can \cup caution
                 /\ rows[k].date \in can <=> InBand(rows[k])
                 /\ \A j \in DOMAIN caution_spray_days :
                       caution_spray_days[j].date = rows[k].date =>
                           IF RLt(rows[k].avg_wind_speed, Q(3, 2))
                           THEN caution_spray_days[j].caution = "low_wind"
                           ELSE caution_spray_days[j].caution = "high_wind"
           /\ NumberTagged(shown, {"spray_favorable"})
                 = (IF can_spray_days # <<>> THEN 1 ELSE 0)
           /\ NumberTagged(shown, {"spray_caution"})
                 = (IF caution_spray_days # <<>> THEN 1 ELSE 0)

\* a favorable day next to a calm day whose gust is at the limit
C9_Witness ==
    /\ Advised
    /\ can_spray_days # <<>>
    /\ \E j \in DOMAIN caution_spray_days :
          /\ caution_spray_days[j].caution = "low_wind"
          /\ \E k \in DOMAIN daily_summary_df_with_gdd.rows :
                /\ daily_summary_df_with_gdd.rows[k].date = caution_spray_days[j].date
                /\ RLe(Num(6), daily_summary_df_with_gdd.rows[k].max_wind_gust)

\* C10: for every month of the table and every rainy-day count exactly one
\* of wetter / drier / typical is shown: wetter iff
\* rainy_days_count > rain_days/4 + 1; drier iff
\* rainy_days_count < rain_days/4 - 1 and rain_days/4 - 1 > 0; otherwise
\* typical.  Drier is never shown for a month whose rain_days/4 - 1 is zero
\* or negative.
C10_RainfallAgainstNormal ==
    Advised =>
        LET n == NORMALS[selected_month].rain_days
            r == rainy_days_count
            tags == Tags(shown)
        IN /\ NumberTagged(shown, {"wetter", "drier", "rain_typical"}) = 1
           /\ "wetter" \in tags <=> 4 * r > n + 4
           /\ "drier" \in tags <=> (4 * r < n - 4 /\ n - 4 > 0)
           /\ "rain_typical" \in tags <=>
                 ~(4 * r > n + 4) /\ ~(4 * r < n - 4 /\ n - 4 > 0)
           /\ n - 4 <= 0 => "drier" \notin tags

\* a dry week in February, whose lower bound 4/4 - 1 is zero: typical
C10_Witness ==
    /\ Advised
    /\ selected_month = "February"
    /\ rainy_days_count = 0
    /\ daily_summary_df.rows # <<>>
    /\ "rain_typical" \in Tags(shown)

----------------------------------------------------------------------------
(* Claims about the advisory section on any summary and month *)

Tagged(findings, tags) == SelectSeq(findings, LAMBDA f : f.tag \in tags)

FrostTags == {"frost_warning", "no_frost"}
HeatTags == {"heat_stress"}
SprayTags == {"spray_header", "spray_favorable", "spray_caution", "spray_caption"}
PopTags == {"high_pop"}
HumidityTags == {"high_humidity"}
NormalsTags ==
    {"normals", "warmer", "cooler", "temp_typical", "wetter", "drier",
     "rain_typical"}

\* the section ran to its end with a month that is not a key of the table
MissingMonth == pc = "done" /\ selected_month \notin DOMAIN NORMALS

\* the findings of the same summary, threshold and statistics for month m
FindingsFor(m) ==
    AdvisoryFindings(daily_summary_df_with_gdd, frost_threshold_input, m,
                     rainy_days_count, overall_avg_temp, overall_avg_humidity)

MissingMonthLeavesRulesOutsideBlock ==
    MissingMonth =>
        /\ "normals_missing" \in Tags(shown)
        /\ Tags(shown) \cap NormalsTags = {}
        /\ \A m \in DOMAIN NORMALS :
              LET others == FrostTags \cup HeatTags \cup SprayTags \cup PopTags
              IN Tagged(shown, others) = Tagged(FindingsFor(m), others)

Lacks(cols) == ~(cols \subseteq daily_summary_df_with_gdd.columns)

\* the rule whose fields are `cols` was skipped without an error
Skipped(cols, tags) ==
    Lacks(cols) =>
        /\ pc # "raised"
        /\ pc = "done" => Tags(shown) \cap tags = {}

GuardedRulesSkipped ==
    ~Lacks({"min_temp"}) =>
        /\ Skipped({"max_temp"}, HeatTags)
        /\ Skipped({"avg_wind_speed", "max_wind_gust"}, SprayTags)
        /\ Skipped({"max_pop"}, PopTags)

----------------------------------------------------------------------------
(* Claims about the script: the frost rule *)

\* C13: exactly one frost finding is shown; it is the warning iff at least
\* one day has min_temp strictly below the threshold, and then lists exactly
\* the dates of those days (not a day whose min_temp equals the threshold);
\* otherwise, also for an empty summary, it is the no-frost finding.
C13_FrostRule ==
    Advised =>
        LET rows == daily_summary_df_with_gdd.rows
            below == {k \in DOMAIN rows :
                         RLt(rows[k].min_temp, frost_threshold_input)}
            frost == Tagged(shown, FrostTags)
        IN /\ Len(frost) = 1
           /\ frost[1].tag = "frost_warning" <=> below # {}
           /\ frost[1].tag = "no_frost" <=> below = {}
           /\ below # {} =>
                 /\ Len(frost[1].days) = Cardinality(below)
                 /\ {frost[1].days[i] : i \in DOMAIN frost[1].days}
                       = {rows[k].date : k \in below}
           /\ below = {} => frost[1].days = <<>>

\* one day below the threshold is listed, a day at the threshold is not
C13_Witness ==
    /\ Advised
    /\ Len(daily_summary_df_with_gdd.rows) = 2
    /\ daily_summary_df_with_gdd.rows[1].min_temp = Num(-1)
    /\ daily_summary_df_with_gdd.rows[2].min_temp = frost_threshold_input
    /\ Tagged(shown, FrostTags)
          = <<Finding("frost_warning", <<daily_summary_df_with_gdd.rows[1].date>>)>>

====
